---- MODULE Spec2Model ----
(***************************************************************************)
(* Model of topics_assigner.py: a resumable batch job that reads a table   *)
(* of books, asks a classification service for the topics of each book     *)
(* and appends one record per book to an output log.                        *)
(*                                                                         *)
(* Texts are sequences of one-character strings.  The characters that the  *)
(* code treats specially have names: "sp" (space), "nl" (newline), "cr"    *)
(* (carriage return), "bs" (backslash), "n" (the letter n), "<p>" (a       *)
(* markup tag), "," (comma).  A topic name is one character of a reply.    *)
(***************************************************************************)
EXTENDS Integers, Sequences, FiniteSets, TLC

\* ------------------------------------------------------------------ bounds
MaxRows == 2
MaxRuns == 2
MaxReplyLen == 4
MaxDescLen == 6

\* ------------------------------------------------------- program constants
MaxAttempts == 5
DelayCap == 60
DelayStep == 2
MinDescLen == 5
max_desc_length == 1000

\* ------------------------------------------------------------ text helpers
Whitespace == {"sp", "nl", "cr"}

Range(s) == {s[i] : i \in 1..Len(s)}

Min(a, b) == IF a < b THEN a ELSE b

\* str.split(sep): the pieces between separators, empty pieces kept
RECURSIVE SplitAt(_, _)
SplitAt(s, seps) ==
    IF s = <<>> THEN << <<>> >>
    ELSE LET rest == SplitAt(Tail(s), seps)
         IN  IF Head(s) \in seps
             THEN << <<>> >> \o rest
             ELSE << <<Head(s)>> \o Head(rest) >> \o Tail(rest)

RECURSIVE LStrip(_)
LStrip(s) ==
    IF s # <<>> /\ Head(s) \in Whitespace THEN LStrip(Tail(s)) ELSE s

RECURSIVE RStrip(_)
RStrip(s) ==
    IF s # <<>> /\ s[Len(s)] \in Whitespace
    THEN RStrip(SubSeq(s, 1, Len(s) - 1)) ELSE s

\* str.strip()
Strip(s) == RStrip(LStrip(s))

NonEmpty(p) == p # <<>>

\* sep.join(pieces)
RECURSIVE Join(_, _)
Join(pieces, sep) ==
    IF pieces = <<>> THEN <<>>
    ELSE IF Len(pieces) = 1 THEN Head(pieces)
    ELSE Head(pieces) \o sep \o Join(Tail(pieces), sep)

\* BeautifulSoup(raw, "html.parser").get_text(separator=" ", strip=True):
\* the text nodes between tags, each stripped, the empty ones dropped,
\* joined by one space
get_text(raw) ==
    LET nodes    == SplitAt(raw, {"<p>"})
        stripped == [i \in 1..Len(nodes) |-> Strip(nodes[i])]
    IN  Join(SelectSeq(stripped, NonEmpty), <<"sp">>)

\* .replace("\n", " ").replace("\r", " ")
ReplaceNewlines(s) ==
    [i \in 1..Len(s) |-> IF s[i] \in {"nl", "cr"} THEN "sp" ELSE s[i]]

\* " ".join(text.split())
CollapseWhitespace(s) ==
    Join(SelectSeq(SplitAt(s, Whitespace), NonEmpty), <<"sp">>)

\* .replace("\\n", ""): every backslash followed by n is removed
RECURSIVE RemoveEscapedNewlines(_)
RemoveEscapedNewlines(s) ==
    IF s = <<>> THEN <<>>
    ELSE IF Len(s) >= 2 /\ s[1] = "bs" /\ s[2] = "n"
         THEN RemoveEscapedNewlines(SubSeq(s, 3, Len(s)))
         ELSE <<Head(s)>> \o RemoveEscapedNewlines(Tail(s))

\* ------------------------------------------------------------ table cells
\* a cell of the input table: NaN (pd.isna) or a text
NaN == [na |-> TRUE, text |-> <<>>]
Text(t) == [na |-> FALSE, text |-> t]
EmptyString == Text(<<>>)

clean_html(raw_html) ==
    IF raw_html.na THEN <<>>
    ELSE Strip(RemoveEscapedNewlines(CollapseWhitespace(
             ReplaceNewlines(get_text(raw_html.text)))))

preprocess_description(ai_description, description, title) ==
    LET chosen   == IF ~ai_description.na THEN ai_description ELSE description
        combined == clean_html(chosen)
    IN  IF Strip(combined) = <<>> \/ Len(combined) < MinDescLen
        THEN <<>>
        ELSE title.text \o <<":", "sp">>
                 \o SubSeq(combined, 1, Min(max_desc_length, Len(combined)))

\* row.get(key, default) on a row of the dataframe
RowGet(row, key, default) ==
    IF key \in DOMAIN row THEN row[key] ELSE default


\* ------------------------------------------------------------ identifiers
\* An identifier is a text of the input table or of the output log: digits
\* only (num) or not.  pd.read_csv gives a column of digit-only texts the
\* integer type and any other column the string type; csv.DictReader gives
\* every cell the string type.
None == [kind |-> "none", num |-> FALSE, n |-> 0]
IntId(text) == [kind |-> "int", num |-> TRUE, n |-> text.n]
StrId(text) == [kind |-> "str", num |-> text.num, n |-> text.n]

\* str(book_id), the text written to the log
IdText(id) == [num |-> id.num, n |-> id.n]

ParseIdColumn(texts) ==
    IF \A i \in 1..Len(texts) : texts[i].num
    THEN [i \in 1..Len(texts) |-> IntId(texts[i])]
    ELSE [i \in 1..Len(texts) |-> StrId(texts[i])]

Title == Text(<<"T">>)

\* pd.read_csv(input_file): one row per line, keyed by the columns present
read_csv(file) ==
    LET ids == ParseIdColumn(file.ids)
    IN  [i \in 1..Len(file.rows) |->
            IF file.hasAlt
            THEN [id |-> ids[i], title |-> Title,
                  description |-> file.rows[i].description,
                  ai_description |-> file.rows[i].ai_description]
            ELSE [id |-> ids[i], title |-> Title,
                  description |-> file.rows[i].description]]

\* faulty variant: blank lines are kept as topics
load_topics_keep_blank(file) ==
    IF ~file.exists THEN <<>>
    ELSE [i \in 1..Len(file.lines) |-> Strip(file.lines[i])]

\* ------------------------------------------------------------ topics file
load_topics_from_file(file) ==
    IF ~file.exists THEN <<>>
    ELSE SelectSeq([i \in 1..Len(file.lines) |-> Strip(file.lines[i])],
                   NonEmpty)

\* ------------------------------------------------------------- output log
\* The log is a sequence of cells and line ends.
NoText == [num |-> FALSE, n |-> 0]
Eol == [k |-> "eol", id |-> NoText, ts |-> <<>>]
IdCell(text) == [k |-> "id", id |-> text, ts |-> <<>>]
TopicsCell(ts) == [k |-> "topics", id |-> NoText, ts |-> ts]
HeaderLine ==
    << [k |-> "h_id", id |-> NoText, ts |-> <<>>],
       [k |-> "h_topics", id |-> NoText, ts |-> <<>>], Eol >>

\* writer.writerow({"id": book_id, "topics_list": str(topics_list)})
CsvLine(book_id, tlist) ==
    << IdCell(IdText(book_id)), TopicsCell(tlist), Eol >>

\* csv.DictReader: the first line names the fields, blank lines are dropped
Lines(d) == SelectSeq(SplitAt(d, {Eol}), NonEmpty)
DictReaderRows(d) == IF Lines(d) = <<>> THEN <<>> ELSE Tail(Lines(d))

\* faulty variant: the header line counts as a data row
get_last_id_counting_header(exists, d) ==
    LET rows == Lines(d)
    IN  IF exists /\ rows # <<>>
        THEN StrId(Head(rows[Len(rows)]).id)
        ELSE None

get_last_processed_id(exists, d) ==
    LET rows == DictReaderRows(d)
    IN  IF exists /\ rows # <<>>
        THEN StrId(Head(rows[Len(rows)]).id)
        ELSE None

\* "if last_processed_id:" None and the empty string are false
Truthy(v) == v # None

\* faulty variant: an identifier that is not found leaves nothing to process
resume_drop_all(frame, last) ==
    LET matches == {i \in 1..Len(frame) : frame[i].id = last}
    IN  IF matches = {} THEN <<>>
        ELSE LET first == CHOOSE i \in matches : \A j \in matches : i <= j
             IN  SubSeq(frame, first + 1, Len(frame))

resume_from_last_processed(frame, last) ==
    LET matches == {i \in 1..Len(frame) : frame[i].id = last}
    IN  IF matches = {} THEN frame
        ELSE LET first == CHOOSE i \in matches : \A j \in matches : i <= j
             IN  SubSeq(frame, first + 1, Len(frame))

\* faulty variant: the log is opened for writing and loses its content
OpenTruncate(d) == <<>>

\* open(output_file, mode="a"): the content of the log is kept
OpenAppend(d) == d

\* faulty variant: the header is written at every open
HeaderAlways(d) == HeaderLine

\* the header is written if output_csv.tell() == 0, the log being empty
HeaderIfEmpty(d) == IF Len(d) = 0 THEN HeaderLine ELSE <<>>

\* faulty variant: the file is written through, a kill leaves the first cell
WrittenOnKillPartial(buf) == SubSeq(buf, 1, Min(1, Len(buf)))

\* what reaches the file of a buffer that was not flushed when the process
\* is killed: the file object buffers whole writes
WrittenOnKill(buf) == <<>>

\* ----------------------------------------------------------------- service
\* faulty variant: every service error is retried
ExceptClauseRetryAll(outcome) ==
    IF outcome \in {"RateLimited", "ServiceError"} THEN "retry"
    ELSE "propagate"

\* the except clause that takes a failed call
ExceptClause(outcome) ==
    IF outcome = "RateLimited" THEN "retry"
    ELSE IF outcome = "ServiceError" THEN "break"
    ELSE "propagate"

\* faulty variant: the delay does not grow
DelayFlat(att) == Min(DelayCap, DelayStep)

Delay(att) == Min(DelayCap, DelayStep * (att + 1))

\* faulty variant: the tokens are not trimmed
FilterTopicsUntrimmed(reply, vocabulary) ==
    SelectSeq(SplitAt(reply, {","}), LAMBDA t : t \in Range(vocabulary))

\* [topic.strip() for topic in content.split(",") if topic.strip() in topics]
FilterTopics(reply, vocabulary) ==
    LET toks     == SplitAt(reply, {","})
        stripped == [i \in 1..Len(toks) |-> Strip(toks[i])]
    IN  SelectSeq(stripped, LAMBDA t : t \in Range(vocabulary))


\* ------------------------------------------------------------------ state
VARIABLES
    topicsFile,         \* the topics file: exists, lines
    input,              \* the input table file: ids, hasAlt, rows
    logExists,          \* os.path.exists(output_file)
    disk,               \* the content of the output log on durable storage
    buffer,             \* written to output_csv but not yet flushed
    pc,                 \* where assign_topics stands
    stoppedAt,          \* pc at the moment the run was interrupted
    runs,               \* number of runs started
    topics,             \* assign_topics: topics
    df,                 \* assign_topics: df, the rows to process
    last_processed_id,  \* assign_topics: last_processed_id
    idx,                \* position of df.iterrows()
    attempt,            \* get_topics_for_book: attempt
    delays,             \* the delays slept for the current row
    outcomes,           \* what the service did for the current row
    content,            \* response.choices[0].message.content
    topics_list         \* process_and_write_row: topics_list

vars == << topicsFile, input, logExists, disk, buffer, pc, stoppedAt, runs,
           topics, df, last_processed_id, idx, attempt, delays, outcomes,
           content, topics_list >>

files  == << topicsFile, input >>
log    == << logExists, disk, buffer >>
locals == << topics, df, last_processed_id, idx >>
call   == << attempt, delays, outcomes, content, topics_list >>

\* ------------------------------------------------------- inputs of a run
UsableDesc == Text(<<"<p>", "a", "b", "sp", "nl", "c", "d", "e">>)
ShortDesc  == Text(<<"a", "b", "sp", "bs", "n">>)

RowPool ==
    { [description |-> UsableDesc, ai_description |-> NaN],
      [description |-> NaN,        ai_description |-> NaN],
      [description |-> UsableDesc, ai_description |-> ShortDesc] }

\* the tables of 1..MaxRows rows; the identifiers of a table are all digits
\* or all not, and a table without the ai_description column has no such cell
InputPool ==
    { f \in { [ids    |-> [i \in 1..Len(rows) |-> [num |-> numeric, n |-> i]],
               hasAlt |-> alt,
               rows   |-> rows] :
                 numeric \in BOOLEAN, alt \in BOOLEAN,
                 rows \in UNION {[1..k -> RowPool] : k \in 1..MaxRows} } :
        f.hasAlt \/ \A i \in 1..Len(f.rows) : f.rows[i].ai_description.na }

TopicsFilePool ==
    { [exists |-> FALSE, lines |-> <<>>],
      [exists |-> TRUE,  lines |-> << <<>>, <<"sp">> >>],
      [exists |-> TRUE,
       lines  |-> << <<"Fiction">>, <<>>, <<"sp", "History", "sp">> >>] }

\* a log left by an earlier run on an earlier input: the record of an
\* identifier that the input no longer has
ForeignText(file) == [num |-> file.ids[1].num, n |-> MaxRows + 1]

PriorLogs(file) ==
    { [exists |-> FALSE, d |-> <<>>],
      [exists |-> TRUE,
       d |-> HeaderLine \o CsvLine(StrId(ForeignText(file)), <<>>)] }

ReplyPool == { <<"Fiction", ",", "sp", "Bogus">>, <<"fiction">> }

InitLocals ==
    /\ topics = <<>>
    /\ df = <<>>
    /\ last_processed_id = None
    /\ idx = 0

InitCall ==
    /\ attempt = 0
    /\ delays = <<>>
    /\ outcomes = <<>>
    /\ content = <<>>
    /\ topics_list = <<>>

Init ==
    /\ topicsFile \in TopicsFilePool
    /\ input \in InputPool
    /\ \E l \in PriorLogs(input) : logExists = l.exists /\ disk = l.d
    /\ buffer = <<>>
    /\ pc = "start"
    /\ stoppedAt = "none"
    /\ runs = 1
    /\ InitLocals
    /\ InitCall

ResetCall ==
    /\ attempt' = 0
    /\ delays' = <<>>
    /\ outcomes' = <<>>
    /\ content' = <<>>
    /\ topics_list' = <<>>

\* ---------------------------------------------------------------- actions
\* assign_topics, lines 216-230: load the topics, read the input, resume
Start ==
    /\ pc = "start"
    /\ LET ts   == load_topics_from_file(topicsFile)
           full == read_csv(input)
           last == get_last_processed_id(logExists, disk)
       IN  IF ts = <<>>
           THEN /\ pc' = "fatal"
                /\ UNCHANGED locals
           ELSE /\ pc' = "open"
                /\ topics' = ts
                /\ last_processed_id' = last
                /\ df' = IF Truthy(last)
                         THEN resume_from_last_processed(full, last)
                         ELSE full
                /\ idx' = 0
    /\ UNCHANGED << files, log, stoppedAt, runs, call >>

\* assign_topics, lines 232-237: open for append, header if the log is empty
OpenLog ==
    /\ pc = "open"
    /\ logExists' = TRUE
    /\ disk' = OpenAppend(disk)
    /\ buffer' = HeaderIfEmpty(disk')
    /\ idx' = 1
    /\ pc' = "loop"
    /\ UNCHANGED << files, stoppedAt, runs, topics, df,
                    last_processed_id, call >>

CombinedDescription(row) ==
    preprocess_description(RowGet(row, "ai_description", EmptyString),
                           RowGet(row, "description", EmptyString),
                           RowGet(row, "title", EmptyString))

\* process_and_write_row, lines 189-199: no valid description, skip the row
SkipRow ==
    /\ pc = "loop"
    /\ idx <= Len(df)
    /\ CombinedDescription(df[idx]) = <<>>
    /\ idx' = idx + 1
    /\ UNCHANGED << files, log, pc, stoppedAt, runs, topics, df,
                    last_processed_id, call >>

\* process_and_write_row, lines 189-201: enter get_topics_for_book
BeginRow ==
    /\ pc = "loop"
    /\ idx <= Len(df)
    /\ CombinedDescription(df[idx]) # <<>>
    /\ pc' = "call"
    /\ ResetCall
    /\ UNCHANGED << files, log, stoppedAt, runs, locals >>

\* get_topics_for_book, lines 93-107: the service replies with a text
ServiceReply(reply) ==
    /\ pc = "call"
    /\ content' = reply
    /\ topics_list' = FilterTopics(reply, topics)
    /\ outcomes' = Append(outcomes, "Reply")
    /\ pc' = "writerow"
    /\ UNCHANGED << files, log, stoppedAt, runs, locals, attempt, delays >>

\* get_topics_for_book, lines 93-118: the call or the use of its reply raises
ServiceFails(outcome) ==
    /\ pc = "call"
    /\ outcomes' = Append(outcomes, outcome)
    /\ CASE ExceptClause(outcome) = "retry" ->
              /\ delays' = Append(delays, Delay(attempt))
              /\ attempt' = attempt + 1
              /\ pc' = IF attempt + 1 < MaxAttempts THEN "call" ELSE "writerow"
              /\ UNCHANGED << log, content, topics_list >>
         [] ExceptClause(outcome) = "break" ->
              /\ pc' = "writerow"
              /\ UNCHANGED << log, attempt, delays, content, topics_list >>
         [] OTHER ->
              \* no except clause matches: the exception leaves
              \* assign_topics through the with block, which closes the file
              /\ pc' = "crashed"
              /\ disk' = disk \o buffer
              /\ buffer' = <<>>
              /\ UNCHANGED << logExists, attempt, delays, content,
                              topics_list >>
    /\ UNCHANGED << files, stoppedAt, runs, locals >>

RateLimited == ServiceFails("RateLimited")
ServiceError == ServiceFails("ServiceError")
UnusableReply == ServiceFails("Unusable")

\* process_and_write_row, line 202
WriteRow ==
    /\ pc = "writerow"
    /\ buffer' = buffer \o CsvLine(df[idx].id, topics_list)
    /\ pc' = "flush"
    /\ UNCHANGED << files, logExists, disk, stoppedAt, runs, locals, call >>

\* process_and_write_row, line 203, and the return to the loop
Flush ==
    /\ pc = "flush"
    /\ disk' = disk \o buffer
    /\ buffer' = <<>>
    /\ idx' = idx + 1
    /\ pc' = "loop"
    /\ ResetCall
    /\ UNCHANGED << files, logExists, stoppedAt, runs, topics, df,
                    last_processed_id >>

\* assign_topics, lines 239-242: the loop ends, the with block closes the file
Finish ==
    /\ pc = "loop"
    /\ idx > Len(df)
    /\ disk' = disk \o buffer
    /\ buffer' = <<>>
    /\ pc' = "done"
    /\ UNCHANGED << files, logExists, stoppedAt, runs, locals, call >>

Running == {"open", "loop", "call", "writerow", "flush"}
Ended == {"done", "fatal", "crashed", "killed", "interrupted"}

\* the process is killed: what the file object buffered is lost
Kill ==
    /\ pc \in Running
    /\ stoppedAt' = pc
    /\ pc' = "killed"
    /\ disk' = disk \o WrittenOnKill(buffer)
    /\ buffer' = <<>>
    /\ UNCHANGED << files, logExists, runs, locals, call >>

\* KeyboardInterrupt: the with block closes the file on the way out
Interrupt ==
    /\ pc \in Running
    /\ stoppedAt' = pc
    /\ pc' = "interrupted"
    /\ disk' = disk \o buffer
    /\ buffer' = <<>>
    /\ UNCHANGED << files, logExists, runs, locals, call >>

\* the tool is run again on the same files
Rerun ==
    /\ pc \in Ended
    /\ runs < MaxRuns
    /\ runs' = runs + 1
    /\ pc' = "start"
    /\ stoppedAt' = "none"
    /\ topics' = <<>>
    /\ df' = <<>>
    /\ last_processed_id' = None
    /\ idx' = 0
    /\ ResetCall
    /\ UNCHANGED << files, log >>

Next ==
    \/ Start
    \/ OpenLog
    \/ SkipRow
    \/ BeginRow
    \/ \E reply \in ReplyPool : ServiceReply(reply)
    \/ RateLimited
    \/ ServiceError
    \/ UnusableReply
    \/ WriteRow
    \/ Flush
    \/ Finish
    \/ Kill
    \/ Interrupt
    \/ Rerun

Spec == Init /\ [][Next]_vars

TypeOK == pc \in Running \cup Ended \cup {"start"}


\* ------------------------------------------------- vocabulary filter alone
\* get_topics_for_book receives one reply, for every reply up to MaxReplyLen
\* characters and every vocabulary of the pool
ReplyAlphabet == {"Fiction", "History", "Bogus", "fiction", ",", "sp"}
Replies == UNION {[1..k -> ReplyAlphabet] : k \in 0..MaxReplyLen}
VocabFiles ==
    { [exists |-> TRUE, lines |-> << <<"Fiction">> >>],
      [exists |-> TRUE, lines |-> << <<"sp", "History">>, <<>> >>],
      [exists |-> TRUE,
       lines  |-> << <<"Fiction">>, <<>>, <<"sp", "History", "sp">> >>] }

InitFilter ==
    /\ topicsFile \in VocabFiles
    /\ input \in {f \in InputPool : Len(f.ids) = 1 /\ Len(f.rows) = 1
                                    /\ f.hasAlt /\ ~f.ids[1].num
                                    /\ f.rows[1].ai_description.na
                                    /\ ~f.rows[1].description.na}
    /\ logExists = TRUE
    /\ disk = <<>>
    /\ buffer = HeaderLine
    /\ pc = "call"
    /\ stoppedAt = "none"
    /\ runs = 1
    /\ topics = load_topics_from_file(topicsFile)
    /\ df = read_csv(input)
    /\ last_processed_id = None
    /\ idx = 1
    /\ InitCall

NextFilter == \E reply \in Replies : ServiceReply(reply)

SpecFilter == InitFilter /\ [][NextFilter]_vars

\* ---------------------------------------------------------------- claims
IsPrefix(a, b) == Len(a) <= Len(b) /\ \A i \in 1..Len(a) : a[i] = b[i]

\* the identifiers of the records of a log, in order
LogIdTexts(d) ==
    [i \in 1..Len(DictReaderRows(d)) |-> Head(DictReaderRows(d)[i]).id]

\* a field of a row is absent: no such column, or no value in the cell
Absent(row, key) == key \notin DOMAIN row \/ row[key].na

BothAbsent(row) == Absent(row, "description") /\ Absent(row, "ai_description")

\* the row has a description the job can use: the alternate description
\* when present, the description otherwise, of five characters or more
UsableRow(row) ==
    LET key == IF Absent(row, "ai_description") THEN "description"
               ELSE "ai_description"
    IN  ~Absent(row, key) /\ Len(clean_html(row[key])) >= 5

HasRecord(d, id) == IdText(id) \in Range(LogIdTexts(d))

NoRowSkipped ==
    \A i \in 1..Len(input.rows) : CombinedDescription(read_csv(input)[i]) # <<>>

\* C1: idempotent resume.  From a log that holds the records of the first N
\* identifiers of the input (no row being skipped), every step of a run
\* keeps the log's identifiers a prefix of the input's identifiers, in
\* input order and without repetition, and a completed run leaves exactly
\* the input's identifiers: M-N records were added.
C1_IdempotentResume ==
    [][ (NoRowSkipped /\ IsPrefix(LogIdTexts(disk), input.ids))
          => /\ IsPrefix(LogIdTexts(disk'), input.ids)
             /\ (pc' = "done" => LogIdTexts(disk') = input.ids) ]_vars

\* a log line is whole: a header or a record, closed by its line end
WholeLine(line) ==
    /\ Len(line) = 2
    /\ \/ line[1].k = "h_id" /\ line[2].k = "h_topics"
       \/ line[1].k = "id" /\ line[2].k = "topics"

CompleteLines(d) ==
    LET ls == Lines(d)
    IN  /\ d # <<>> => d[Len(d)] = Eol
        /\ \A i \in 1..Len(ls) : WholeLine(ls[i])

\* what was in the durable log is still there, in place
FlushedKept ==
    /\ Len(disk) <= Len(disk')
    /\ \A i \in 1..Len(disk) : disk'[i] = disk[i]

\* C2: atomic append.  After every step, interruptions included, the durable
\* log holds whole lines only, and every line that was in the durable log
\* before the step is still there, unchanged.
C2_AtomicAppend == [][CompleteLines(disk') /\ FlushedKept]_vars

C2_Witness ==
    /\ pc = "killed"
    /\ stoppedAt = "flush"
    /\ Len(Lines(disk)) >= 2
    /\ ~HasRecord(disk, df[idx].id)

\* C3: per-item failure isolation.  No behaviour of the service for one
\* item makes an exception leave process_and_write_row and end the run.
C3_FailureIsolation == pc # "crashed"

\* the trimmed tokens of a reply
Tokens(reply) ==
    [i \in 1..Len(SplitAt(reply, {","})) |-> Strip(SplitAt(reply, {","})[i])]

\* result is toks restricted to the positions of P, in order
IsSelection(result, toks, P) ==
    /\ Len(result) = Cardinality(P)
    /\ \A i \in P : result[Cardinality({j \in P : j <= i})] = toks[i]

MemberPositions(reply, vocabulary) ==
    {i \in 1..Len(Tokens(reply)) : Tokens(reply)[i] \in Range(vocabulary)}

FirstMemberPositions(reply, vocabulary) ==
    {i \in MemberPositions(reply, vocabulary) :
        \A j \in MemberPositions(reply, vocabulary) :
            j < i => Tokens(reply)[j] # Tokens(reply)[i]}

Replied == pc = "writerow" /\ outcomes # <<>> /\ outcomes[Len(outcomes)] = "Reply"

\* C4 as stated: the returned list is the trimmed tokens of the reply that
\* are members of the vocabulary, in reply order, unknown tokens and
\* duplicate tokens dropped, so that no topic appears twice.
C4_FilterDropsDuplicates ==
    Replied =>
        /\ IsSelection(topics_list, Tokens(content),
                       FirstMemberPositions(content, topics))
        /\ \A i, j \in 1..Len(topics_list) :
               i # j => topics_list[i] # topics_list[j]

\* C4 amended: the returned list is the trimmed tokens of the reply that are
\* members of the vocabulary, in reply order, unknown tokens dropped and a
\* repeated token kept as often as it occurs; every returned topic is in
\* the vocabulary.
C4_FilterKeepsMembers ==
    Replied =>
        /\ IsSelection(topics_list, Tokens(content),
                       MemberPositions(content, topics))
        /\ \A i \in 1..Len(topics_list) : topics_list[i] \in Range(topics)

C4_Witness ==
    /\ Replied
    /\ Len(topics_list) = 2
    /\ topics_list[1] = topics_list[2]
    /\ "sp" \in Range(content)

AllRateLimited ==
    outcomes # <<>> /\ \A i \in 1..Len(outcomes) : outcomes[i] = "RateLimited"

\* C5: retry exhaustion.  When every call of an item is rate-limited there
\* are exactly 5 attempts, the delays waited are strictly increasing and at
\* most 60, the result is the empty list and the run goes on.
C5_RetryExhaustion ==
    AllRateLimited =>
        /\ Len(outcomes) <= 5
        /\ \A i \in 1..Len(delays) : delays[i] <= 60
        /\ \A i \in 1..(Len(delays) - 1) : delays[i] < delays[i + 1]
        /\ pc = "call" => Len(outcomes) < 5
        /\ pc \in {"writerow", "flush"} =>
               Len(outcomes) = 5 /\ Len(delays) >= 4 /\ topics_list = <<>>
        /\ pc \notin {"crashed", "fatal", "done"}

C5_Witness ==
    /\ AllRateLimited
    /\ pc = "flush"
    /\ Len(outcomes) = 5
    /\ idx < Len(df)

\* C6: non-retryable failure.  A service error other than rate limiting is
\* the last call of its item: no call and no wait follows it, whatever the
\* number of rate-limited attempts before it, and the result is empty.
C6_NonRetryable ==
    \A k \in 1..Len(outcomes) :
        outcomes[k] = "ServiceError" =>
            /\ k = Len(outcomes)
            /\ Len(delays) = k - 1
            /\ pc \notin {"call", "crashed"}
            /\ topics_list = <<>>

C6_Witness ==
    /\ pc = "flush"
    /\ Len(outcomes) = 3
    /\ outcomes[3] = "ServiceError"
    /\ Len(delays) = 2

\* C7: empty-description skip.  A row with neither description causes no
\* service call and no record, and when the run has ended by itself every
\* later row of the run with a usable description has its record.
C7_EmptyDescriptionSkip ==
    /\ pc \in {"call", "writerow", "flush"} => ~BothAbsent(df[idx])
    /\ pc \in {"done", "crashed"} =>
           \A i, j \in 1..Len(df) :
               (i < j /\ BothAbsent(df[i]) /\ UsableRow(df[j]))
                   => HasRecord(disk, df[j].id)

\* C8: missing optional column.  In a table without the ai_description
\* column a row with a usable description is classified: when the run is
\* complete it has its record.
C8_MissingAltColumn ==
    (~input.hasAlt /\ pc = "done") =>
        \A j \in 1..Len(df) : UsableRow(df[j]) => HasRecord(disk, df[j].id)

\* the topics file is missing or has blank lines only
NoTopics ==
    \/ ~topicsFile.exists
    \/ \A i \in 1..Len(topicsFile.lines) :
           Range(topicsFile.lines[i]) \subseteq Whitespace

\* C9: configuration error.  With no topic the run ends before any work:
\* no step opens the log, writes to it or calls the service.
C9_NoTopicsNoWork ==
    [][ NoTopics =>
          /\ disk' = disk
          /\ logExists' = logExists
          /\ buffer' = buffer
          /\ pc' \notin Running
          /\ outcomes' = outcomes ]_vars

C9_Witness ==
    /\ pc = "fatal"
    /\ topicsFile.exists
    /\ ~logExists

\* the identifier of the last line of the log is none of the input's
ResumeMismatch ==
    /\ logExists
    /\ LogIdTexts(disk) # <<>>
    /\ LogIdTexts(disk)[Len(LogIdTexts(disk))] \notin Range(input.ids)

\* C10: resume mismatch.  When the last identifier of the log is not in
\* the input, the run starts and its pending rows are the whole input in
\* input order.
C10_ResumeMismatch ==
    [][ (pc = "start" /\ ~NoTopics /\ ResumeMismatch)
          => (pc' = "open" /\ df' = read_csv(input)) ]_vars

C10_Witness ==
    /\ pc = "loop"
    /\ idx = 1
    /\ ResumeMismatch
    /\ Len(df) = 2
    /\ last_processed_id # None


\* C11: append-only log.  Every step of every run, interruptions and new
\* runs included, leaves the content the log had as an unchanged prefix of
\* the content it has, and never removes the log.
C11_AppendOnly ==
    [][IsPrefix(disk, disk') /\ (logExists => logExists')]_vars

C11_Witness ==
    /\ runs = 2
    /\ pc = "loop"
    /\ idx = 2
    /\ Len(Lines(disk)) >= 3

IsHeader(line) == line[1].k = "h_id"

\* C12: single header.  In the log, with what is written and not yet
\* flushed, a header line is the first line: there is never a second one.
C12_SingleHeader ==
    LET ls == Lines(disk \o buffer)
    IN  \A i \in 1..Len(ls) : IsHeader(ls[i]) => i = 1

C12_Witness ==
    /\ runs = 2
    /\ pc = "loop"
    /\ buffer = <<>>
    /\ Len(Lines(disk)) >= 2
    /\ IsHeader(Lines(disk)[1])

\* the log has no data row: it does not exist, is empty, or is a header only
NoDataRow == ~logExists \/ disk = <<>> \/ disk = HeaderLine

\* C13: fresh start.  When the log has no data row, the run that starts has
\* no resume point and its pending rows are the whole input in input order.
C13_FreshStart ==
    [][ (pc = "start" /\ ~NoTopics /\ NoDataRow)
          => /\ pc' = "open"
             /\ last_processed_id' = None
             /\ df' = read_csv(input) ]_vars

C13_Witness ==
    /\ runs = 2
    /\ pc = "open"
    /\ disk = HeaderLine
    /\ last_processed_id = None
    /\ Len(df) = 2


\* C14: termination.  Whatever the service does, an item causes at most 5
\* service calls, a reply ends the attempts of its item at once, no item is
\* visited twice within a run, and a run that ends by itself ends after the
\* last pending row.
C14_Termination ==
    [][ /\ Len(outcomes') <= MaxAttempts
        /\ "Reply" \in Range(outcomes') => pc' # "call"
        /\ (pc \in Running /\ pc' \in Running) => idx' >= idx
        /\ (pc = "flush" /\ pc' = "loop") => idx' > idx
        /\ pc' \in {"done", "crashed"} => idx' > Len(df') ]_vars

\* C15: backoff schedule.  The delay waited after the k-th consecutive
\* rate-limited attempt of an item is 2 doubled k-1 times, at most 60.
C15_BackoffSchedule ==
    \A k \in 1..Len(delays) : delays[k] = Min(DelayCap, 2 ^ k)

\* C16: waits only precede retries.  Every wait is followed by another
\* attempt for the same item: when the attempts of an item are over, it has
\* waited once between consecutive attempts and not after the last one.
C16_WaitsPrecedeRetries ==
    /\ Len(delays) <= Len(outcomes)
    /\ pc \in {"writerow", "flush"} => Len(delays) = Len(outcomes) - 1


\* the topic list the record of the item in hand is to hold: the filtered
\* topics of the reply, or none when the classification failed
ExpectedTopics ==
    IF outcomes # <<>> /\ outcomes[Len(outcomes)] = "Reply"
    THEN FilterTopics(content, topics)
    ELSE <<>>

\* C17: records per outcome.  An item is skipped, without a record, exactly
\* when its normalized text has fewer than 5 characters; any other item ends
\* its attempts, unless the run is stopped from outside, with one record: the
\* filtered topics of the reply, or the empty list when classification failed.
C17_RecordsPerOutcome ==
    [][ /\ (pc = "loop" /\ pc' = "loop" /\ idx' = idx + 1)
              => ~UsableRow(df[idx]) /\ disk' = disk /\ buffer' = buffer
        /\ (pc = "loop" /\ pc' = "call") => UsableRow(df[idx])
        /\ (pc = "call" /\ pc' \notin {"killed", "interrupted"})
              => pc' \in {"call", "writerow"}
        /\ (pc = "writerow" /\ pc' = "flush")
              => buffer' = buffer \o CsvLine(df[idx].id, ExpectedTopics)
        /\ (pc = "flush" /\ pc' = "loop")
              => disk' = disk \o buffer /\ idx' = idx + 1 ]_vars


\* ------------------------------------------- normalization of descriptions
\* The loop of assign_topics at a one-row table whose description is any
\* text of at most MaxDescLen characters: process_and_write_row normalizes
\* it and skips the row or calls the service.
DescAlphabet == {"a", "sp", "nl", "cr", "bs", "n"}
RawTexts == UNION {[1..k -> DescAlphabet] : k \in 0..MaxDescLen}

InitClean ==
    /\ topicsFile \in {f \in TopicsFilePool : load_topics_from_file(f) # <<>>}
    /\ \E raw \in RawTexts :
           input = [ids    |-> << [num |-> FALSE, n |-> 1] >>,
                    hasAlt |-> TRUE,
                    rows   |-> << [description    |-> Text(raw),
                                   ai_description |-> NaN] >>]
    /\ logExists = TRUE
    /\ disk = <<>>
    /\ buffer = HeaderLine
    /\ pc = "loop"
    /\ stoppedAt = "none"
    /\ runs = 1
    /\ topics = load_topics_from_file(topicsFile)
    /\ df = read_csv(input)
    /\ last_processed_id = None
    /\ idx = 1
    /\ InitCall

NextClean == SkipRow \/ BeginRow

SpecClean == InitClean /\ [][NextClean]_vars

\* an escaped newline sequence, backslash then n, read as a newline
RECURSIVE EscapedAsNewline(_)
EscapedAsNewline(s) ==
    IF s = <<>> THEN <<>>
    ELSE IF Len(s) >= 2 /\ s[1] = "bs" /\ s[2] = "n"
         THEN <<"nl">> \o EscapedAsNewline(SubSeq(s, 3, Len(s)))
         ELSE <<Head(s)>> \o EscapedAsNewline(Tail(s))

\* the words of a raw text: what its runs of whitespace, newline characters
\* and escaped newline sequences separate
Words(raw) == SelectSeq(SplitAt(EscapedAsNewline(raw), Whitespace), NonEmpty)

HasEscapedNewline(s) ==
    \E i \in 1..(Len(s) - 1) : s[i] = "bs" /\ s[i + 1] = "n"

HasWhitespaceRun(s) ==
    \E i \in 1..(Len(s) - 1) : s[i] \in Whitespace /\ s[i + 1] \in Whitespace

\* C18: whitespace normalization.  The text clean_html returns for the
\* description of the row that was processed has no whitespace at either
\* end, no newline or carriage return, no escaped newline sequence and no
\* two whitespace characters in a row: it is the words of the description,
\* one space between them.
C18_WhitespaceNormalization ==
    (pc = "call" \/ idx > 1) =>
        LET raw     == df[1].description.text
            cleaned == clean_html(df[1].description)
        IN  /\ Strip(cleaned) = cleaned
            /\ Range(cleaned) \cap {"nl", "cr"} = {}
            /\ ~HasEscapedNewline(cleaned)
            /\ ~HasWhitespaceRun(cleaned)
            /\ cleaned = Join(Words(raw), <<"sp">>)


\* the log holds a record of the identifier with an empty topic list
FailedRecord(d, id) ==
    LET rows == DictReaderRows(d)
    IN  \E i \in 1..Len(rows) :
            /\ Len(rows[i]) = 2
            /\ rows[i][1].id = IdText(id)
            /\ rows[i][2].ts = <<>>

\* C19: failed items count as processed.  The service is never called for
\* an item of which the log holds a record with an empty topic list.
C19_FailedCountAsProcessed ==
    [][ (pc = "loop" /\ pc' = "call") => ~FailedRecord(disk, df[idx].id) ]_vars


\* C20: no item lost.  Every input row up to the row of the log's last
\* identifier has a record or has no usable description, and when a run is
\* complete every input row with a usable description has a record.
C20_NoItemLost ==
    LET full     == read_csv(input)
        recorded == Range(LogIdTexts(disk))
        last     == get_last_processed_id(logExists, disk)
        Kept(i)  == IdText(full[i].id) \in recorded \/ ~UsableRow(full[i])
    IN  /\ \A j \in 1..Len(full) :
               (Truthy(last) /\ IdText(full[j].id) = IdText(last))
                   => \A i \in 1..j : Kept(i)
        /\ pc = "done" => \A i \in 1..Len(full) : Kept(i)

====
